---- MODULE Spec2Model ----
(***************************************************************************)
(* Versus-League-Manager: a Concordium smart contract (src/src/lib.rs).    *)
(*                                                                         *)
(* The durable contract state is the struct State (admin, player_data,     *)
(* paused, implementors) plus the module installed at the contract's       *)
(* address.  Every receive function is modelled as an operator from the    *)
(* state it runs on and its inputs (sender, parameter, outcome of the      *)
(* logger) to a record                                                     *)
(*     [ret |-> "Ok" or the CustomContractError, state |-> the state the   *)
(*      function leaves behind, logs |-> the events it logged]             *)
(* and the host's dispatching of one transaction is one action: a call     *)
(* that returns Ok is committed with its events, a call that returns Err   *)
(* is rejected and every change it made is discarded.                      *)
(*                                                                         *)
(* An installed module is assumed to keep the entrypoints of this source   *)
(* file, so the same receive functions serve the instance after an         *)
(* upgrade.                                                                *)
(***************************************************************************)
EXTENDS Integers, Sequences, FiniteSets, TLC

\* ------------------------------------------------------------------ bounds

\* The largest value of a wins/losses counter: stands for u64::MAX.
MaxU == 1

\* ------------------------------------------------------------ value domains

\* Address values (senders, players, admins).
Address == {"A", "B"}

\* enum PlayerState
PlayerState == {"Active", "Suspended"}

\* enum BattleResult
BattleResult == {"Win", "Loss"}

\* Identifiers of standards (keys of State.implementors).
StandardId == {"std1"}

\* Vec<ContractAddress> values an implementors entry can hold.
ImplementorLists == {<< >>, <<"c1", "c2">>}

\* Module references the chain knows how to answer an upgrade to.
\*   m1, m2     deployed modules holding a contract with this name
\*   absent     no such module on chain
\*   nocontract a module without a contract of this name
\*   badversion a module of an unsupported smart-contract version
ModuleReference == {"m1", "m2", "absent", "nocontract", "badversion"}

\* Entrypoint names an upgrade may ask to call after the code swap: the
\* migration entrypoint of the new module.
MigrateEntrypoint == {"migrate"}

\* Option::None
None == "None"

\* A parameter the cursor fails to deserialise.
Malformed == [ok |-> FALSE]

\* The parameter of a transaction whose function returned before reading
\* it.
NotRead == [ok |-> FALSE, read |-> FALSE]

\* The sender of a transaction whose function does not read ctx.sender().
NoSender == "NoSender"

\* The outcome of a migration call that was not made.
NoCall == [ok |-> FALSE]

\* Outcomes of logger.log: Ok, LogError::Full, LogError::Malformed.
LogOutcome == {"Ok", "Full", "Malformed"}

VARIABLES
    admin,          \* State.admin
    player_data,    \* State.player_data: a map Address -> PlayerData
    paused,         \* State.paused
    implementors,   \* State.implementors: a map StandardId -> list
    module,         \* the module installed at the contract's address
    before,         \* admin, paused and module when the last transaction
                    \* started
    op,             \* entrypoint of the last transaction
    sender,         \* ctx.sender() as the last transaction read it
    result,         \* what the last transaction returned
    value,          \* the return value of the last transaction (None if none)
    logs,           \* events the last transaction logged (empty if rejected)
    steps           \* the host operations the last transaction performed

durable == <<admin, player_data, paused, implementors, module>>
vars == <<admin, player_data, paused, implementors, module, before,
          op, sender, result, value, logs, steps>>

\* The durable state as one record.
Cur ==
    [admin |-> admin, player_data |-> player_data, paused |-> paused,
     implementors |-> implementors, module |-> module]

\* struct PlayerData
PlayerData == [state : PlayerState, wins : 0..MaxU, losses : 0..MaxU]

\* ------------------------------------------------------------- parameters

\* (Address, PlayerState), or bytes that do not parse
SetPlayerDataParams ==
    [ok : {TRUE}, player : Address, state : PlayerState] \cup {Malformed}

\* UpdateBattleResultParams, or bytes that do not parse
UpdateBattleResultParams ==
    [ok : {TRUE}, player : Address, result : BattleResult] \cup {Malformed}

\* Address, or bytes that do not parse
AddressParams == [ok : {TRUE}, address : Address] \cup {Malformed}

\* SetPausedParams, or bytes that do not parse
SetPausedParams == [ok : {TRUE}, paused : BOOLEAN] \cup {Malformed}

\* (StandardIdentifierOwned, Vec<ContractAddress>), or bytes that do not
\* parse
SetImplementorsParams ==
    [ok : {TRUE}, id : StandardId, implementors : ImplementorLists]
        \cup {Malformed}

\* UpgradeParams, or bytes that do not parse
UpgradeParams ==
    [ok : {TRUE}, module : ModuleReference,
     migrate : {None} \cup MigrateEntrypoint] \cup {Malformed}

\* ---------------------------------------------------------------- errors

\* impl From<LogError> for CustomContractError
FromLogError(le) ==
    IF le = "Full" THEN "LogFull" ELSE "LogMalformed"

\* impl From<UpgradeError> for CustomContractError
FromUpgradeError(ue) ==
    CASE ue = "MissingModule" -> "FailedUpgradeMissingModule"
      [] ue = "MissingContract" -> "FailedUpgradeMissingContract"
      [] ue = "UnsupportedModuleVersion" -> "FailedUpgradeUnsupportedModuleVersion"

\* impl<T> From<CallContractError<T>> for CustomContractError
FromCallContractError(cce) == "InvokeContractError"

\* A function's return Err(e); st is the state the function left behind.
Err(st, e) == [ret |-> e, state |-> st, logs |-> << >>, value |-> None]

\* A function's return Ok(v), with the state the function left behind and
\* the events it logged.
Ok(st, evs, v) == [ret |-> "Ok", state |-> st, logs |-> evs, value |-> v]

\* --------------------------------------------------------------- events

\* struct NewAdminEvent
NewAdminEvent(new_admin) == [tag |-> "NewAdmin", new_admin |-> new_admin]

\* struct NewBattleResultEvent
NewBattleResultEvent(player, is_win) ==
    [tag |-> "NewBattleResult", player |-> player, is_win |-> is_win]

\* ------------------------------------------------------- state and init

\* State::new leaving admin unset instead of taking the instantiator.
StateNew_admin_unset(a, mod) ==
    [admin |-> None, player_data |-> << >>, paused |-> FALSE,
     implementors |-> << >>, module |-> mod]

\* State::new, in the instance the chain creates from module mod.
StateNew(a, mod) ==
    [admin |-> a, player_data |-> << >>, paused |-> FALSE,
     implementors |-> << >>, module |-> mod]

\* contract_init: the initial admin is the instantiator; logs NewAdminEvent.
contract_init(init_origin, mod, log) ==
    LET state == StateNew(init_origin, mod) IN
    IF log # "Ok" THEN Err(state, FromLogError(log))
    ELSE Ok(state, <<NewAdminEvent(init_origin)>>, None)

\* ----------------------------------------------------- player registry

\* wins += 1 / losses += 1 on a u64: the sum without overflow, otherwise
\* 0 in a build without overflow checks.
WrappingInc(x) == (x + 1) % (MaxU + 1)

\* .insert(k, PlayerData{s, 0, 0}) in place of the entry API: an existing
\* record is overwritten.
EntryModifyOrInsert_overwrite(map, k, s) ==
    [x \in DOMAIN map \cup {k} |->
        IF x = k THEN [state |-> s, wins |-> 0, losses |-> 0] ELSE map[x]]

\* .entry(k).and_modify(|pd| pd.state = s).or_insert(PlayerData{s, 0, 0})
EntryModifyOrInsert(map, k, s) ==
    IF k \in DOMAIN map
    THEN [map EXCEPT ![k].state = s]
    ELSE [x \in DOMAIN map \cup {k} |->
            IF x = k THEN [state |-> s, wins |-> 0, losses |-> 0] ELSE map[x]]

\* contract_state_set_player_data with the admin check before the pause
\* check.
contract_state_set_player_data_admin_first(st, snd, prm) ==
    IF snd # st.admin THEN Err(st, "Unauthorized")
    ELSE IF st.paused THEN Err(st, "ContractPaused")
    ELSE IF ~prm.ok THEN Err(st, "ParseParams")
    ELSE Ok([st EXCEPT !.player_data =
                EntryModifyOrInsert(st.player_data, prm.player, prm.state)],
            << >>, None)

\* contract_state_set_player_data (entrypoint setPlayerData)
contract_state_set_player_data(st, snd, prm) ==
    IF st.paused THEN Err(st, "ContractPaused")
    ELSE IF snd # st.admin THEN Err(st, "Unauthorized")
    ELSE IF ~prm.ok THEN Err(st, "ParseParams")
    ELSE Ok([st EXCEPT !.player_data =
                EntryModifyOrInsert(st.player_data, prm.player, prm.state)],
            << >>, None)

\* The match on params.result: the counter it increments.  overflow_checks
\* is the build's setting: with it an overflowing += panics.
IncrementCounter(pd, res, overflow_checks) ==
    LET old == IF res = "Win" THEN pd.wins ELSE pd.losses IN
    IF old = MaxU /\ overflow_checks THEN [panic |-> TRUE, pd |-> pd]
    ELSE [panic |-> FALSE,
          pd |-> IF res = "Win"
                 THEN [pd EXCEPT !.wins = WrappingInc(pd.wins)]
                 ELSE [pd EXCEPT !.losses = WrappingInc(pd.losses)]]

\* update_battle_result with the admin check before the pause check.
update_battle_result_admin_first(st, snd, prm, log, overflow_checks) ==
    IF snd # st.admin THEN Err(st, "Unauthorized")
    ELSE IF st.paused THEN Err(st, "ContractPaused")
    ELSE IF ~prm.ok THEN Err(st, "ParseParams")
    ELSE IF prm.player \notin DOMAIN st.player_data THEN Ok(st, << >>, None)
    ELSE
      LET inc == IncrementCounter(st.player_data[prm.player], prm.result,
                                  overflow_checks)
          st2 == [st EXCEPT !.player_data[prm.player] = inc.pd]
      IN  IF inc.panic THEN Err(st, "Trap")
          ELSE IF log # "Ok" THEN Err(st2, FromLogError(log))
          ELSE Ok(st2, <<NewBattleResultEvent(prm.player, prm.result)>>, None)

\* update_battle_result without the admin check.
update_battle_result_unchecked(st, snd, prm, log, overflow_checks) ==
    IF st.paused THEN Err(st, "ContractPaused")
    ELSE IF ~prm.ok THEN Err(st, "ParseParams")
    ELSE IF prm.player \notin DOMAIN st.player_data THEN Ok(st, << >>, None)
    ELSE
      LET inc == IncrementCounter(st.player_data[prm.player], prm.result,
                                  overflow_checks)
          st2 == [st EXCEPT !.player_data[prm.player] = inc.pd]
      IN  IF inc.panic THEN Err(st, "Trap")
          ELSE IF log # "Ok" THEN Err(st2, FromLogError(log))
          ELSE Ok(st2, <<NewBattleResultEvent(prm.player, prm.result)>>, None)

\* update_battle_result (entrypoint updateBattleResult)
update_battle_result(st, snd, prm, log, overflow_checks) ==
    IF st.paused THEN Err(st, "ContractPaused")
    ELSE IF snd # st.admin THEN Err(st, "Unauthorized")
    ELSE IF ~prm.ok THEN Err(st, "ParseParams")
    ELSE IF prm.player \notin DOMAIN st.player_data THEN Ok(st, << >>, None)
    ELSE
      LET inc == IncrementCounter(st.player_data[prm.player], prm.result,
                                  overflow_checks)
          st2 == [st EXCEPT !.player_data[prm.player] = inc.pd]
      IN  IF inc.panic THEN Err(st, "Trap")
          ELSE IF log # "Ok" THEN Err(st2, FromLogError(log))
          ELSE Ok(st2, <<NewBattleResultEvent(prm.player, prm.result)>>, None)

\* contract_state_get_paused (entrypoint getPaused)
contract_state_get_paused(st) == Ok(st, << >>, st.paused)

\* contract_state_get_player_data (entrypoint getPlayerData)
contract_state_get_player_data(st, prm) ==
    IF ~prm.ok THEN Err(st, "ParseParams")
    ELSE IF prm.address \in DOMAIN st.player_data
         THEN Ok(st, << >>, st.player_data[prm.address].state)
         ELSE Err(st, "PlayerDoesNotExist")

\* contract_state_is_added answering whether the player is active.
contract_state_is_added_active_only(st, prm) ==
    IF ~prm.ok THEN Err(st, "ParseParams")
    ELSE Ok(st, << >>,
            /\ prm.address \in DOMAIN st.player_data
            /\ st.player_data[prm.address].state = "Active")

\* contract_state_is_added (entrypoint isAdded)
contract_state_is_added(st, prm) ==
    IF ~prm.ok THEN Err(st, "ParseParams")
    ELSE Ok(st, << >>, prm.address \in DOMAIN st.player_data)

\* contract_view (entrypoint view): ReturnBasicState
contract_view(st) ==
    Ok(st, << >>, [admin |-> st.admin, paused |-> st.paused])

\* ------------------------------------------------------------ governance

\* contract_update_admin logging the admin it replaces.
contract_update_admin_logs_old(st, snd, prm, log) ==
    IF snd # st.admin THEN Err(st, "Unauthorized")
    ELSE IF ~prm.ok THEN Err(st, "ParseParams")
    ELSE LET st2 == [st EXCEPT !.admin = prm.address] IN
         IF log # "Ok" THEN Err(st2, FromLogError(log))
         ELSE Ok(st2, <<NewAdminEvent(st.admin)>>, None)

\* contract_update_admin with the logger's error dropped instead of
\* propagated with `?`.
contract_update_admin_log_best_effort(st, snd, prm, log) ==
    IF snd # st.admin THEN Err(st, "Unauthorized")
    ELSE IF ~prm.ok THEN Err(st, "ParseParams")
    ELSE LET st2 == [st EXCEPT !.admin = prm.address] IN
         IF log # "Ok" THEN Ok(st2, << >>, None)
         ELSE Ok(st2, <<NewAdminEvent(prm.address)>>, None)

\* contract_update_admin (entrypoint updateAdmin)
contract_update_admin(st, snd, prm, log) ==
    IF snd # st.admin THEN Err(st, "Unauthorized")
    ELSE IF ~prm.ok THEN Err(st, "ParseParams")
    ELSE LET st2 == [st EXCEPT !.admin = prm.address] IN
         IF log # "Ok" THEN Err(st2, FromLogError(log))
         ELSE Ok(st2, <<NewAdminEvent(prm.address)>>, None)

\* contract_update_pause behind the pause check of the other entrypoints.
contract_update_pause_gated(st, snd, prm) ==
    IF st.paused THEN Err(st, "ContractPaused")
    ELSE IF snd # st.admin THEN Err(st, "Unauthorized")
    ELSE IF ~prm.ok THEN Err(st, "ParseParams")
    ELSE Ok([st EXCEPT !.paused = prm.paused], << >>, None)

\* contract_update_pause without the admin check.
contract_update_pause_unchecked(st, snd, prm) ==
    IF ~prm.ok THEN Err(st, "ParseParams")
    ELSE Ok([st EXCEPT !.paused = prm.paused], << >>, None)

\* contract_update_pause (entrypoint setPaused)
contract_update_pause(st, snd, prm) ==
    IF snd # st.admin THEN Err(st, "Unauthorized")
    ELSE IF ~prm.ok THEN Err(st, "ParseParams")
    ELSE Ok([st EXCEPT !.paused = prm.paused], << >>, None)

\* ------------------------------------------------------ standards registry

\* contract_set_implementors appending to the entry it finds.
contract_set_implementors_append(st, snd, prm) ==
    IF st.paused THEN Err(st, "ContractPaused")
    ELSE IF snd # st.admin THEN Err(st, "Unauthorized")
    ELSE IF ~prm.ok THEN Err(st, "ParseParams")
    ELSE Ok([st EXCEPT !.implementors =
                [x \in DOMAIN st.implementors \cup {prm.id} |->
                    IF x # prm.id THEN st.implementors[x]
                    ELSE IF x \in DOMAIN st.implementors
                         THEN st.implementors[x] \o prm.implementors
                         ELSE prm.implementors]],
            << >>, None)

\* setImplementors(id, implementers): pause-gated, admin-gated, replaces
\* the entry for id wholesale.
contract_set_implementors(st, snd, prm) ==
    IF st.paused THEN Err(st, "ContractPaused")
    ELSE IF snd # st.admin THEN Err(st, "Unauthorized")
    ELSE IF ~prm.ok THEN Err(st, "ParseParams")
    ELSE Ok([st EXCEPT !.implementors =
                [x \in DOMAIN st.implementors \cup {prm.id} |->
                    IF x = prm.id THEN prm.implementors
                    ELSE st.implementors[x]]],
            << >>, None)

\* The capability identifiers the registry supports natively.
NativeStandards == {"cis0"}

\* The lists of identifiers a supports query asks about, or bytes that do
\* not parse.
SupportsParams ==
    [ok : {TRUE}, ids : {<<"std1">>, <<"std1", "cis0">>}] \cup {Malformed}

\* The answers of supports for one identifier.
Supported == [tag |-> "Supported"]
NotSupported == [tag |-> "NotSupported"]
SupportedBy(list) == [tag |-> "SupportedBy", implementors |-> list]

\* supports(ids): one answer per requested identifier, in the order of
\* the request.
contract_supports(st, prm) ==
    IF ~prm.ok THEN Err(st, "ParseParams")
    ELSE Ok(st, << >>,
            [i \in 1..Len(prm.ids) |->
                IF prm.ids[i] \in NativeStandards THEN Supported
                ELSE IF prm.ids[i] \notin DOMAIN st.implementors
                     THEN NotSupported
                     ELSE SupportedBy(st.implementors[prm.ids[i]])])

\* ---------------------------------------------------------------- upgrade

\* host.upgrade(module): the chain's answer for a module reference.
HostUpgrade(ref) ==
    CASE ref = "absent" -> "MissingModule"
      [] ref = "nocontract" -> "MissingContract"
      [] ref = "badversion" -> "UnsupportedModuleVersion"
      [] OTHER -> "Ok"

\* What the new module's migration entrypoint may have written when it
\* returns successfully: nothing, a new admin, or player records rebuilt
\* with their counters cleared.
MigrationWrites(st) ==
    {st}
    \cup {[st EXCEPT !.admin = a] : a \in Address}
    \cup {[st EXCEPT !.player_data =
            [k \in DOMAIN st.player_data |->
                [st.player_data[k] EXCEPT !.wins = 0, !.losses = 0]]]}

\* host.invoke_contract_raw(self_address, parameters, func, 0): the
\* outcomes of the synchronous call into the freshly installed module.  A
\* failed call leaves nothing behind.
HostInvoke(st, func) ==
    {[ok |-> FALSE, state |-> st]}
    \cup {[ok |-> TRUE, state |-> w] : w \in MigrationWrites(st)}

\* contract_upgrade with the result of invoke_contract_raw dropped instead
\* of propagated with `?`.
contract_upgrade_ignoring_invoke(st, snd, prm, inv) ==
    LET out(e, store, trace) ==
            [ret |-> e, state |-> st, store |-> store, logs |-> << >>,
             value |-> None, trace |-> trace]
        swapped == [st EXCEPT !.module = prm.module]
    IN
    IF snd # st.admin
    THEN out("Unauthorized", st, <<"read_root", "check_admin">>)
    ELSE IF ~prm.ok
    THEN out("ParseParams", st, <<"read_root", "check_admin", "parse">>)
    ELSE IF HostUpgrade(prm.module) # "Ok"
    THEN out(FromUpgradeError(HostUpgrade(prm.module)), st,
             <<"read_root", "check_admin", "parse", "upgrade">>)
    ELSE IF prm.migrate = None
    THEN out("Ok", swapped,
             <<"read_root", "check_admin", "parse", "upgrade">>)
    ELSE out("Ok", IF inv.ok THEN inv.state ELSE swapped,
             <<"read_root", "check_admin", "parse", "upgrade", "invoke">>)

\* contract_upgrade storing the State it read with read_root once the
\* migration has returned.
contract_upgrade_stale_store(st, snd, prm, inv) ==
    LET out(e, store, trace) ==
            [ret |-> e, state |-> st, store |-> store, logs |-> << >>,
             value |-> None, trace |-> trace]
        swapped == [st EXCEPT !.module = prm.module]
    IN
    IF snd # st.admin
    THEN out("Unauthorized", st, <<"read_root", "check_admin">>)
    ELSE IF ~prm.ok
    THEN out("ParseParams", st, <<"read_root", "check_admin", "parse">>)
    ELSE IF HostUpgrade(prm.module) # "Ok"
    THEN out(FromUpgradeError(HostUpgrade(prm.module)), st,
             <<"read_root", "check_admin", "parse", "upgrade">>)
    ELSE IF prm.migrate = None
    THEN out("Ok", swapped,
             <<"read_root", "check_admin", "parse", "upgrade">>)
    ELSE IF ~inv.ok
    THEN out(FromCallContractError(inv), swapped,
             <<"read_root", "check_admin", "parse", "upgrade", "invoke">>)
    ELSE out("Ok", swapped,
             <<"read_root", "check_admin", "parse", "upgrade", "invoke">>)

\* contract_upgrade with the parameter parsed before the admin check.
contract_upgrade_parse_first(st, snd, prm, inv) ==
    LET out(e, store, trace) ==
            [ret |-> e, state |-> st, store |-> store, logs |-> << >>,
             value |-> None, trace |-> trace]
        swapped == [st EXCEPT !.module = prm.module]
    IN
    IF ~prm.ok
    THEN out("ParseParams", st, <<"read_root", "parse">>)
    ELSE IF snd # st.admin
    THEN out("Unauthorized", st, <<"read_root", "parse", "check_admin">>)
    ELSE IF HostUpgrade(prm.module) # "Ok"
    THEN out(FromUpgradeError(HostUpgrade(prm.module)), st,
             <<"read_root", "parse", "check_admin", "upgrade">>)
    ELSE IF prm.migrate = None
    THEN out("Ok", swapped,
             <<"read_root", "parse", "check_admin", "upgrade">>)
    ELSE IF ~inv.ok
    THEN out(FromCallContractError(inv), swapped,
             <<"read_root", "parse", "check_admin", "upgrade", "invoke">>)
    ELSE out("Ok", inv.state,
             <<"read_root", "parse", "check_admin", "upgrade", "invoke">>)

\* contract_upgrade (entrypoint upgrade).  inv is the outcome of the
\* migration call, one of HostInvoke(store after the swap, func).  In the
\* result, state is the local read by read_root, store is the durable
\* state as the host operations left it, trace lists the stages reached.
\* read_root deserialises the State this source stored, which parses.
contract_upgrade(st, snd, prm, inv) ==
    LET state == st
        out(e, store, trace) ==
            [ret |-> e, state |-> state, store |-> store, logs |-> << >>,
             value |-> None, trace |-> trace]
        swapped == [st EXCEPT !.module = prm.module]
    IN
    IF snd # state.admin
    THEN out("Unauthorized", st, <<"read_root", "check_admin">>)
    ELSE IF ~prm.ok
    THEN out("ParseParams", st, <<"read_root", "check_admin", "parse">>)
    ELSE IF HostUpgrade(prm.module) # "Ok"
    THEN out(FromUpgradeError(HostUpgrade(prm.module)), st,
             <<"read_root", "check_admin", "parse", "upgrade">>)
    ELSE IF prm.migrate = None
    THEN out("Ok", swapped,
             <<"read_root", "check_admin", "parse", "upgrade">>)
    ELSE IF ~inv.ok
    THEN out(FromCallContractError(inv), swapped,
             <<"read_root", "check_admin", "parse", "upgrade", "invoke">>)
    ELSE out("Ok", inv.state,
             <<"read_root", "check_admin", "parse", "upgrade", "invoke">>)

\* ------------------------------------------------------------ dispatching

\* The attributes with upgrade declared mutable instead of low_level.
Attribute_upgrade_mutable(entry) ==
    CASE entry \in {"setPlayerData", "updateBattleResult", "updateAdmin",
                    "setPaused", "setImplementors", "upgrade"} -> "mutable"
      [] OTHER -> "readonly"

\* The #[receive] attributes: a mutable function's state is stored when it
\* returns, a low_level function works on the store itself, the others
\* only read.
Attribute(entry) ==
    CASE entry \in {"setPlayerData", "updateBattleResult", "updateAdmin",
                    "setPaused", "setImplementors"} -> "mutable"
      [] entry = "upgrade" -> "low_level"
      [] OTHER -> "readonly"

\* One transaction on the instance: r is what the receive function
\* returned when run on st.  A rejected transaction leaves st; an accepted
\* one leaves the store, with the function's state written over it when
\* the function is mutable.
Receive(entry, st, r) ==
    LET store == IF "store" \in DOMAIN r THEN r.store ELSE st IN
    IF r.ret # "Ok" THEN st
    ELSE IF Attribute(entry) = "mutable"
         THEN [r.state EXCEPT !.module = store.module]
         ELSE store

\* A call of entry made while a transaction is running, for instance by
\* the migration function calling back into the instance: the function
\* runs on st, the durable state as the transaction has left it so far,
\* with a logger that accepts its events and integers that do not
\* overflow.
Reenter(st, entry, snd, prm) ==
    CASE entry = "setPlayerData" ->
            contract_state_set_player_data(st, snd, prm)
      [] entry = "updateBattleResult" ->
            update_battle_result(st, snd, prm, "Ok", FALSE)
      [] entry = "updateAdmin" -> contract_update_admin(st, snd, prm, "Ok")
      [] entry = "setPaused" -> contract_update_pause(st, snd, prm)

\* The durable state such a call leaves within the running transaction.
AfterReenter(st, entry, snd, prm) ==
    Receive(entry, st, Reenter(st, entry, snd, prm))

\* The transition of one transaction whose function returned r.
Transact(entry, snd, r) ==
    LET post == Receive(entry, Cur, r) IN
    /\ admin' = post.admin
    /\ player_data' = post.player_data
    /\ paused' = post.paused
    /\ implementors' = post.implementors
    /\ module' = post.module
    /\ before' = [admin |-> admin, paused |-> paused, module |-> module]
    /\ op' = entry
    /\ sender' = snd
    /\ result' = r.ret
    /\ value' = r.value
    /\ logs' = IF r.ret = "Ok" THEN r.logs ELSE << >>
    /\ steps' = IF "trace" \in DOMAIN r THEN r.trace ELSE << >>

\* The parameters to draw for a call: all of them when the function gets
\* to ctx.parameter_cursor().get() (it then rejects the malformed one with
\* ParseParams), otherwise the one it never reads.
Drawn(params, ret_on_malformed) ==
    IF ret_on_malformed = "ParseParams" THEN params ELSE {NotRead}

\* ---------------------------------------------------------------- actions

SetPlayerData ==
    \E snd \in Address :
      \E prm \in Drawn(SetPlayerDataParams,
                contract_state_set_player_data(Cur, snd, Malformed).ret) :
        Transact("setPlayerData", snd,
                 contract_state_set_player_data(Cur, snd, prm))

\* The logger's outcome and the build's overflow checks are drawn only for
\* the calls that get as far as the increment.
UpdateBattleResult ==
    \E snd \in Address :
      \E prm \in Drawn(UpdateBattleResultParams,
                update_battle_result(Cur, snd, Malformed, "Ok", FALSE).ret) :
        LET counted == /\ prm.ok
                       /\ prm.player \in DOMAIN player_data
            overflows ==
                /\ counted
                /\ IncrementCounter(player_data[prm.player], prm.result,
                                    TRUE).panic
        IN
        \E log \in (IF counted THEN LogOutcome ELSE {"Ok"}),
           overflow_checks \in (IF overflows THEN BOOLEAN ELSE {FALSE}) :
            Transact("updateBattleResult", snd,
                     update_battle_result(Cur, snd, prm, log, overflow_checks))

GetPaused ==
    Transact("getPaused", NoSender, contract_state_get_paused(Cur))

GetPlayerData ==
    \E prm \in AddressParams :
        Transact("getPlayerData", NoSender,
                 contract_state_get_player_data(Cur, prm))

IsAdded ==
    \E prm \in AddressParams :
        Transact("isAdded", NoSender, contract_state_is_added(Cur, prm))

View ==
    Transact("view", NoSender, contract_view(Cur))

UpdateAdmin ==
    \E snd \in Address :
      \E prm \in Drawn(AddressParams,
                contract_update_admin(Cur, snd, Malformed, "Ok").ret) :
        \E log \in (IF prm.ok THEN LogOutcome ELSE {"Ok"}) :
            Transact("updateAdmin", snd,
                     contract_update_admin(Cur, snd, prm, log))

SetPaused ==
    \E snd \in Address :
      \E prm \in Drawn(SetPausedParams,
                contract_update_pause(Cur, snd, Malformed).ret) :
        Transact("setPaused", snd, contract_update_pause(Cur, snd, prm))

SetImplementors ==
    \E snd \in Address :
      \E prm \in Drawn(SetImplementorsParams,
                contract_set_implementors(Cur, snd, Malformed).ret) :
        Transact("setImplementors", snd,
                 contract_set_implementors(Cur, snd, prm))

Supports ==
    \E prm \in SupportsParams :
        Transact("supports", NoSender, contract_supports(Cur, prm))

\* The outcome of the migration call is drawn for the calls that make it.
Upgrade ==
    \E snd \in Address :
      \E prm \in Drawn(UpgradeParams,
                contract_upgrade(Cur, snd, Malformed, NoCall).ret) :
        \E inv \in (IF prm.ok /\ prm.migrate # None
                       /\ HostUpgrade(prm.module) = "Ok"
                    THEN HostInvoke([Cur EXCEPT !.module = prm.module],
                                    prm.migrate)
                    ELSE {NoCall}) :
            Transact("upgrade", snd, contract_upgrade(Cur, snd, prm, inv))

\* The instance right after a successful contract_init from module m1.
Init ==
    \E a \in Address :
        LET r == contract_init(a, "m1", "Ok") IN
        /\ admin = r.state.admin
        /\ player_data = r.state.player_data
        /\ paused = r.state.paused
        /\ implementors = r.state.implementors
        /\ module = r.state.module
        /\ before = [admin |-> r.state.admin, paused |-> r.state.paused,
                     module |-> r.state.module]
        /\ op = "init"
        /\ sender = a
        /\ result = r.ret
        /\ value = r.value
        /\ logs = r.logs
        /\ steps = << >>

Next ==
    \/ SetPlayerData
    \/ UpdateBattleResult
    \/ GetPaused
    \/ GetPlayerData
    \/ IsAdded
    \/ View
    \/ UpdateAdmin
    \/ SetPaused
    \/ SetImplementors
    \/ Supports
    \/ Upgrade

Spec == Init /\ [][Next]_vars

\* ====================================================================
\* Properties
\* ====================================================================

\* The parameters of a set that parse.
WellFormed(params) == {p \in params : p.ok}

\* The outcomes the migration call can have on st with module m installed.
InvokeOutcomes(st, m) == HostInvoke([st EXCEPT !.module = m], "migrate")

\* The outcomes to consider for the migration call of an upgrade with
\* parameter prm in the current state: those of the call when prm names a
\* migration and a module the chain installs, otherwise no call.
MigrationOutcomes(prm) ==
    IF prm.ok /\ prm.migrate # None /\ HostUpgrade(prm.module) = "Ok"
    THEN InvokeOutcomes(Cur, prm.module)
    ELSE {NoCall}

\* What a transaction leaves of the durable state when its function
\* returned r on the current state.
After(entry, r) == Receive(entry, Cur, r)

\* view is enabled in every state and leaves the durable state as it
\* finds it, so every reachable durable state is also the durable state
\* of a state that follows a view call.  What the calls that can be made
\* on the current durable state would do reads nothing of the record of
\* the last transaction: the statements about them are made in the states
\* that follow a view call, which visits every reachable durable state.
AfterView == op = "view"

\* The stages of contract_upgrade, in the order of the source.
UpgradeStages == <<"read_root", "check_admin", "parse", "upgrade", "invoke">>

\* --------------------------------------------------------------------
\* C1: in every reachable state, an upgrade by the admin that names a
\* migration whose call fails returns InvokeContractError and leaves
\* admin, paused, player_data, implementors and the installed module as
\* they were before the call: the code swap is rolled back with the rest.
C1_FailedMigrationRollsBack ==
    /\ \A prm \in WellFormed(UpgradeParams) :
         (prm.migrate # None /\ HostUpgrade(prm.module) = "Ok") =>
            \A inv \in InvokeOutcomes(Cur, prm.module) :
                ~inv.ok =>
                    LET r == contract_upgrade(Cur, admin, prm, inv) IN
                    /\ r.ret = "InvokeContractError"
                    /\ After("upgrade", r) = Cur
    /\ (op = "upgrade" /\ result = "InvokeContractError") =>
         /\ admin = before.admin
         /\ paused = before.paused
         /\ module = before.module
         /\ logs = << >>

\* An upgrade whose migration call failed has run after players were
\* added, and the module is the one installed before it.
C1_Witness ==
    /\ op = "upgrade"
    /\ result = "InvokeContractError"
    /\ steps = UpgradeStages
    /\ DOMAIN player_data # {}
    /\ module = before.module

\* --------------------------------------------------------------------
\* C2: on every reachable durable state, a successful upgrade by the admin with a
\* migration leaves the durable state exactly as the migration call wrote
\* it (the new module installed): the State that contract_upgrade read
\* before the migration is never stored over it.  Among the entrypoints
\* upgrade alone is low_level, every other entrypoint that changes the
\* state is mutable and has its state stored when it returns.
C2_MigratedStateSurvives ==
    /\ AfterView =>
       \A prm \in WellFormed(UpgradeParams) :
         (prm.migrate # None /\ HostUpgrade(prm.module) = "Ok") =>
            \A inv \in InvokeOutcomes(Cur, prm.module) :
                inv.ok =>
                    LET r == contract_upgrade(Cur, admin, prm, inv) IN
                    /\ r.ret = "Ok"
                    /\ After("upgrade", r) = inv.state
                    /\ After("upgrade", r).module = prm.module
    /\ \A entry \in {"setPlayerData", "updateBattleResult", "updateAdmin",
                     "setPaused", "setImplementors"} :
         Attribute(entry) = "mutable"
    /\ Attribute("upgrade") = "low_level"

\* A successful upgrade ran a migration that rewrote the admin, and the
\* admin stored is the migration's, not the one upgrade had read.
C2_Witness ==
    /\ op = "upgrade"
    /\ result = "Ok"
    /\ steps = UpgradeStages
    /\ sender = before.admin
    /\ admin # before.admin

\* --------------------------------------------------------------------
\* C3: upgrade reads the admin from the store, checks the sender, parses
\* the parameter, swaps the code and only then, if a migration was named,
\* invokes it.  A sender that is not the admin gets Unauthorized before
\* anything is parsed or swapped, a malformed parameter gets ParseParams
\* before the swap, a failed swap returns the matching error without the
\* migration being invoked, and paused does not block an upgrade.
C3_UpgradeOrder ==
    /\ AfterView =>
       \A snd \in Address, prm \in UpgradeParams :
         \A inv \in MigrationOutcomes(prm) :
            LET r == contract_upgrade(Cur, snd, prm, inv)
                n == Len(r.trace)
            IN
            /\ r.trace = SubSeq(UpgradeStages, 1, n)
            /\ snd # admin =>
                 /\ r.ret = "Unauthorized"
                 /\ n = 2
                 /\ After("upgrade", r) = Cur
            /\ (snd = admin /\ ~prm.ok) =>
                 /\ r.ret = "ParseParams"
                 /\ n = 3
                 /\ After("upgrade", r) = Cur
            /\ (snd = admin /\ prm.ok /\ prm.module = "absent") =>
                 r.ret = "FailedUpgradeMissingModule"
            /\ (snd = admin /\ prm.ok /\ prm.module = "nocontract") =>
                 r.ret = "FailedUpgradeMissingContract"
            /\ (snd = admin /\ prm.ok /\ prm.module = "badversion") =>
                 r.ret = "FailedUpgradeUnsupportedModuleVersion"
            /\ (snd = admin /\ prm.ok
                  /\ prm.module \in {"absent", "nocontract", "badversion"}) =>
                 /\ n = 4
                 /\ After("upgrade", r) = Cur
            /\ n = 5 => (snd = admin /\ prm.ok /\ prm.migrate # None)
            /\ (snd = admin /\ prm.ok /\ prm.module \in {"m1", "m2"}
                  /\ prm.migrate = None) =>
                 /\ r.ret = "Ok"
                 /\ After("upgrade", r) = [Cur EXCEPT !.module = prm.module]
    /\ op = "upgrade" =>
         /\ steps = SubSeq(UpgradeStages, 1, Len(steps))
         /\ (sender # before.admin) = (result = "Unauthorized")

\* An upgrade asked of a paused registry got as far as the code swap,
\* which the chain refused, and stopped there.
C3_Witness ==
    /\ op = "upgrade"
    /\ result = "FailedUpgradeMissingContract"
    /\ steps = SubSeq(UpgradeStages, 1, 4)
    /\ before.paused
    /\ paused

\* --------------------------------------------------------------------
\* C4: on every reachable durable state, a call of setPlayerData,
\* updateBattleResult, updateAdmin, setPaused or upgrade by a sender that
\* is not the admin fails and leaves the durable state as it was; for
\* updateAdmin and setPaused the error is Unauthorized.
C4_NonAdminRejected ==
    /\ AfterView =>
       \A snd \in Address \ {admin} :
         /\ \A prm \in SetPlayerDataParams :
              LET r == contract_state_set_player_data(Cur, snd, prm) IN
              r.ret # "Ok" /\ After("setPlayerData", r) = Cur
         /\ \A prm \in UpdateBattleResultParams, log \in LogOutcome,
               oc \in BOOLEAN :
              LET r == update_battle_result(Cur, snd, prm, log, oc) IN
              r.ret # "Ok" /\ After("updateBattleResult", r) = Cur
         /\ \A prm \in AddressParams, log \in LogOutcome :
              LET r == contract_update_admin(Cur, snd, prm, log) IN
              r.ret = "Unauthorized" /\ After("updateAdmin", r) = Cur
         /\ \A prm \in SetPausedParams :
              LET r == contract_update_pause(Cur, snd, prm) IN
              r.ret = "Unauthorized" /\ After("setPaused", r) = Cur
         /\ \A prm \in UpgradeParams :
              \A inv \in MigrationOutcomes(prm) :
                LET r == contract_upgrade(Cur, snd, prm, inv) IN
                r.ret # "Ok" /\ After("upgrade", r) = Cur
    /\ (op \in {"updateAdmin", "setPaused"} /\ sender # before.admin) =>
         /\ result = "Unauthorized"
         /\ admin = before.admin
         /\ paused = before.paused

\* An account that is not the admin called setPaused on an unpaused
\* registry: Unauthorized, and the registry is still unpaused.
C4_Witness ==
    /\ op = "setPaused"
    /\ result = "Unauthorized"
    /\ sender # admin
    /\ sender # before.admin
    /\ ~before.paused
    /\ ~paused

\* --------------------------------------------------------------------
\* C5 (as amended): while paused, every call of setPlayerData,
\* updateBattleResult and setImplementors fails with ContractPaused for
\* every sender and changes nothing; every transaction that starts in a
\* paused registry, other than an upgrade that runs a migration, leaves
\* player_data and implementors as they were, so they are the same when
\* the admin unpauses; and an unpaused registry accepts its admin's
\* well-formed calls of these entrypoints (updateBattleResult: for a
\* player that has a record, when the logger accepts the event).
C5_PausedCallsRejected ==
    paused =>
        \A snd \in Address :
            /\ \A prm \in SetPlayerDataParams :
                 LET r == contract_state_set_player_data(Cur, snd, prm) IN
                 r.ret = "ContractPaused" /\ After("setPlayerData", r) = Cur
            /\ \A prm \in UpdateBattleResultParams, log \in LogOutcome,
                  oc \in BOOLEAN :
                 LET r == update_battle_result(Cur, snd, prm, log, oc) IN
                 /\ r.ret = "ContractPaused"
                 /\ After("updateBattleResult", r) = Cur
            /\ \A prm \in SetImplementorsParams :
                 LET r == contract_set_implementors(Cur, snd, prm) IN
                 r.ret = "ContractPaused" /\ After("setImplementors", r) = Cur

C5_UnpausedCallsAccepted ==
    ~paused =>
        /\ \A prm \in WellFormed(SetPlayerDataParams) :
             contract_state_set_player_data(Cur, admin, prm).ret = "Ok"
        /\ \A prm \in WellFormed(UpdateBattleResultParams) :
             prm.player \in DOMAIN player_data =>
                update_battle_result(Cur, admin, prm, "Ok", FALSE).ret = "Ok"
        /\ \A prm \in WellFormed(SetImplementorsParams) :
             contract_set_implementors(Cur, admin, prm).ret = "Ok"

\* The transaction of this step is an upgrade that ran its migration.
MigrationRan == op' = "upgrade" /\ result' = "Ok" /\ steps' = UpgradeStages

PauseGated == {"setPlayerData", "updateBattleResult"}

\* What every admin-gated entrypoint returns to sender snd in the current
\* state, over all parameters and logger outcomes: a set of
\* [entry, ret] records.
GatedReturns(snd) ==
    {[entry |-> "setPlayerData",
      ret |-> contract_state_set_player_data(Cur, snd, prm).ret] :
        prm \in SetPlayerDataParams}
    \cup {[entry |-> "updateBattleResult",
           ret |-> update_battle_result(Cur, snd, x[1], x[2], x[3]).ret] :
            x \in UpdateBattleResultParams \X LogOutcome \X BOOLEAN}
    \cup {[entry |-> "updateAdmin",
           ret |-> contract_update_admin(Cur, snd, x[1], x[2]).ret] :
            x \in AddressParams \X LogOutcome}
    \cup {[entry |-> "setPaused",
           ret |-> contract_update_pause(Cur, snd, prm).ret] :
            prm \in SetPausedParams}
    \cup {[entry |-> "upgrade",
           ret |-> contract_upgrade(Cur, snd, prm, NoCall).ret] :
            prm \in UpgradeParams}

\* C6 (as amended): right after a successful updateAdmin(N) by admin A
\* with N # A, every admin-gated call sent by A fails, with Unauthorized,
\* or with ContractPaused when the registry is paused and the entrypoint
\* checks the pause first; no admin-gated call sent by N is refused as
\* Unauthorized; and in every state exactly one account passes the admin
\* check.
C6_RotationImmediate ==
    /\ (op = "updateAdmin" /\ result = "Ok" /\ admin # before.admin) =>
         /\ sender = before.admin
         /\ \A c \in GatedReturns(before.admin) :
              c.ret = IF paused /\ c.entry \in PauseGated
                      THEN "ContractPaused" ELSE "Unauthorized"
         /\ \A c \in GatedReturns(admin) : c.ret # "Unauthorized"
    /\ Cardinality({a \in Address :
            contract_update_pause(Cur, a, Malformed).ret # "Unauthorized"}) = 1

\* C6 as stated: after the rotation every admin-gated call sent by the
\* old admin fails Unauthorized.
C6_Original ==
    (op = "updateAdmin" /\ result = "Ok" /\ admin # before.admin) =>
        /\ \A c \in GatedReturns(before.admin) : c.ret = "Unauthorized"
        /\ \A c \in GatedReturns(admin) : c.ret # "Unauthorized"

\* The admin of a paused registry has just handed it to another account.
C6_Witness ==
    /\ op = "updateAdmin"
    /\ result = "Ok"
    /\ sender = before.admin
    /\ admin # before.admin
    /\ paused

\* --------------------------------------------------------------------
\* C7: in every reachable state, paused or not, updateAdmin(N) by the
\* admin with a logger that accepts the event returns Ok, sets admin to N,
\* logs exactly one NewAdminEvent carrying N and leaves paused,
\* player_data, implementors and the module unchanged.
C7_UpdateAdmin ==
    /\ \A prm \in WellFormed(AddressParams) :
         LET r == contract_update_admin(Cur, admin, prm, "Ok") IN
         /\ r.ret = "Ok"
         /\ r.logs = <<NewAdminEvent(prm.address)>>
         /\ After("updateAdmin", r) = [Cur EXCEPT !.admin = prm.address]
    /\ (op = "updateAdmin" /\ result = "Ok") =>
         /\ sender = before.admin
         /\ logs = <<NewAdminEvent(admin)>>
         /\ paused = before.paused
         /\ module = before.module

\* updateAdmin succeeded on a paused registry that holds players: the
\* admin is new and the one event logged carries it.
C7_Witness ==
    /\ op = "updateAdmin"
    /\ result = "Ok"
    /\ admin # before.admin
    /\ logs = <<NewAdminEvent(admin)>>
    /\ before.paused
    /\ paused
    /\ DOMAIN player_data # {}

\* --------------------------------------------------------------------
\* C8: in every reachable state, whatever paused is, setPaused(b) by the
\* admin returns Ok, leaves paused = b and leaves admin, player_data,
\* implementors and the module unchanged; so the admin can always bring
\* the registry back to paused = FALSE in one call.
C8_SetPaused ==
    /\ \A prm \in WellFormed(SetPausedParams) :
         LET r == contract_update_pause(Cur, admin, prm) IN
         /\ r.ret = "Ok"
         /\ After("setPaused", r) = [Cur EXCEPT !.paused = prm.paused]
    /\ ~After("setPaused",
              contract_update_pause(Cur, admin,
                                    [ok |-> TRUE, paused |-> FALSE])).paused
    /\ (op = "setPaused" /\ result = "Ok") =>
         /\ sender = before.admin
         /\ admin = before.admin
         /\ module = before.module

\* The admin unpaused a paused registry.
C8_Witness ==
    /\ op = "setPaused"
    /\ result = "Ok"
    /\ sender = admin
    /\ before.paused
    /\ ~paused

\* --------------------------------------------------------------------
\* C9: in every reachable state and for every account a, isAdded(a)
\* returns Ok; it returns TRUE exactly when getPlayerData(a) returns Ok
\* and FALSE exactly when getPlayerData(a) fails with PlayerDoesNotExist.
C9_IsAddedIffGetPlayerData ==
    /\ \A a \in Address :
         LET prm == [ok |-> TRUE, address |-> a]
             ia == contract_state_is_added(Cur, prm)
             gp == contract_state_get_player_data(Cur, prm)
         IN
         /\ ia.ret = "Ok"
         /\ ia.value \in BOOLEAN
         /\ ia.value <=> (gp.ret = "Ok")
         /\ ~ia.value <=> (gp.ret = "PlayerDoesNotExist")
         /\ After("isAdded", ia) = Cur
         /\ After("getPlayerData", gp) = Cur
    /\ (op = "isAdded" /\ result = "Ok") => value \in BOOLEAN

\* isAdded answered TRUE in a registry where one account is a suspended
\* player and the other account is none.
C9_Witness ==
    /\ op = "isAdded"
    /\ result = "Ok"
    /\ value = TRUE
    /\ \E a \in DOMAIN player_data : player_data[a].state = "Suspended"
    /\ DOMAIN player_data # Address

\* --------------------------------------------------------------------
\* C10: in every reachable state that is not paused, updateBattleResult
\* by the admin for an account with no player record fails with
\* PlayerDoesNotExist, logs nothing and leaves the state unchanged.
C10_AbsentPlayerRejected ==
    ~paused =>
        \A prm \in WellFormed(UpdateBattleResultParams) :
            prm.player \notin DOMAIN player_data =>
                \A log \in LogOutcome, oc \in BOOLEAN :
                    LET r == update_battle_result(Cur, admin, prm, log, oc)
                    IN
                    /\ r.ret = "PlayerDoesNotExist"
                    /\ r.logs = << >>
                    /\ After("updateBattleResult", r) = Cur

\* --------------------------------------------------------------------
\* The number of NewBattleResultEvents for player p with result res among
\* the events evs.
CountEvents(evs, p, res) ==
    Cardinality({i \in 1..Len(evs) : evs[i] = NewBattleResultEvent(p, res)})

\* C11: for every account P with a record, getPlayerData(P) returns the
\* record's status together with its wins and losses; the status is the
\* one most recently set and the counters count the successful
\* updateBattleResult calls on P: setPlayerData on P by the admin sets the
\* status and keeps the counters, a successful updateBattleResult(P, Win)
\* adds one to wins and nothing to losses, (P, Loss) adds one to losses and
\* nothing to wins, and calls on another account leave P's record alone.
C11_GetPlayerDataCounts ==
    \A p \in DOMAIN player_data :
        LET pd == player_data[p]
            gp == contract_state_get_player_data(
                      Cur, [ok |-> TRUE, address |-> p])
        IN
        /\ gp.ret = "Ok"
        /\ gp.value \notin PlayerState
        /\ gp.value = [state |-> pd.state, wins |-> pd.wins,
                       losses |-> pd.losses]
        /\ ~paused =>
             /\ \A prm \in WellFormed(SetPlayerDataParams) :
                  LET post == After("setPlayerData",
                          contract_state_set_player_data(Cur, admin, prm))
                  IN  post.player_data[p] =
                        IF prm.player = p
                        THEN [pd EXCEPT !.state = prm.state] ELSE pd
             /\ \A prm \in WellFormed(UpdateBattleResultParams),
                   oc \in BOOLEAN :
                  LET r == update_battle_result(Cur, admin, prm, "Ok", oc)
                      post == After("updateBattleResult", r)
                  IN  r.ret = "Ok" =>
                        /\ post.player_data[p].state = pd.state
                        /\ post.player_data[p].wins = pd.wins +
                             CountEvents(r.logs, p, "Win")
                        /\ post.player_data[p].losses = pd.losses +
                             CountEvents(r.logs, p, "Loss")
                        /\ prm.player = p =>
                             r.logs = <<NewBattleResultEvent(p, prm.result)>>

\* --------------------------------------------------------------------
\* The durable state after setImplementors(id, list) by the admin.
AfterSetImplementors(id, list) ==
    After("setImplementors",
          contract_set_implementors(
              Cur, admin, [ok |-> TRUE, id |-> id, implementors |-> list]))

\* What supports([id]) answers on state st.
SupportsOne(st, id) == contract_supports(st, [ok |-> TRUE, ids |-> <<id>>])

\* The parts of C12 that do not depend on the identifier being native:
\* setImplementors by the admin while unpaused succeeds and leaves the
\* entry for id equal to the list given, whatever the entry held, and
\* every other entry and field as it was; supports answers NotSupported
\* for an identifier that is neither native nor set, and its answers
\* come in the order of the request.
C12_ReplaceAndOrder ==
    /\ (AfterView /\ ~paused) =>
         \A id \in StandardId \cup NativeStandards,
            list \in ImplementorLists :
            LET r == contract_set_implementors(
                        Cur, admin,
                        [ok |-> TRUE, id |-> id, implementors |-> list])
                post == AfterSetImplementors(id, list)
            IN
            /\ r.ret = "Ok"
            /\ DOMAIN post.implementors = DOMAIN implementors \cup {id}
            /\ post.implementors[id] = list
            /\ \A x \in DOMAIN implementors \ {id} :
                 post.implementors[x] = implementors[x]
            /\ [post EXCEPT !.implementors = implementors] = Cur
            /\ SupportsOne(post, id).ret = "Ok"
    /\ \A id \in StandardId \ (NativeStandards \cup DOMAIN implementors) :
         SupportsOne(Cur, id).value = <<NotSupported>>
    /\ AfterView =>
       \A prm \in WellFormed(SupportsParams) :
         LET s == contract_supports(Cur, prm) IN
         /\ s.ret = "Ok"
         /\ After("supports", s) = Cur
         /\ Len(s.value) = Len(prm.ids)
         /\ \A i \in 1..Len(prm.ids) :
              <<s.value[i]>> = SupportsOne(Cur, prm.ids[i]).value
    /\ (op = "supports" /\ result = "Ok") =>
         /\ Len(value) \in {1, 2}
         /\ value[1] = IF "std1" \in DOMAIN implementors
                       THEN SupportedBy(implementors["std1"])
                       ELSE NotSupported
         /\ Len(value) = 2 => value[2] = Supported

\* C12 (as amended): C12_ReplaceAndOrder, and a supports([id]) that
\* follows setImplementors(id, list) answers SupportedBy(list) when id is
\* not a native identifier (Supported when it is); SupportedBy(<< >>),
\* the answer after setImplementors(id, << >>), differs from the
\* NotSupported of an identifier never set.
C12_SetThenSupports ==
    /\ C12_ReplaceAndOrder
    /\ (AfterView /\ ~paused) =>
         \A id \in StandardId \cup NativeStandards,
            list \in ImplementorLists :
            SupportsOne(AfterSetImplementors(id, list), id).value =
                <<IF id \in NativeStandards
                  THEN Supported ELSE SupportedBy(list)>>
    /\ SupportedBy(<< >>) # NotSupported

\* C12 as stated: a supports([id]) that follows setImplementors(id, list)
\* answers SupportedBy(list), for every identifier.
C12_Original ==
    /\ C12_ReplaceAndOrder
    /\ (AfterView /\ ~paused) =>
         \A id \in StandardId \cup NativeStandards,
            list \in ImplementorLists :
            SupportsOne(AfterSetImplementors(id, list), id).value =
                <<SupportedBy(list)>>

\* supports answered SupportedBy(<< >>) for std1 and Supported for the
\* native identifier, in a registry whose entry for std1 is the empty
\* list.
C12_Witness ==
    /\ op = "supports"
    /\ result = "Ok"
    /\ value = <<SupportedBy(<< >>), Supported>>
    /\ "std1" \in DOMAIN implementors
    /\ implementors["std1"] = << >>

\* --------------------------------------------------------------------
\* The outcomes of logger.log that are errors.
LogErrors == LogOutcome \ {"Ok"}

\* A call of entry whose function returned r changes nothing when r is an
\* error.
Discarded(entry, r) == r.ret # "Ok" => After(entry, r) = Cur

\* Every call that can be made on the current durable state changes
\* nothing when it returns an error.
EveryErrorDiscarded ==
    /\ \A snd \in Address :
         /\ \A prm \in SetPlayerDataParams :
              Discarded("setPlayerData",
                        contract_state_set_player_data(Cur, snd, prm))
         /\ \A prm \in UpdateBattleResultParams, log \in LogOutcome,
               oc \in BOOLEAN :
              Discarded("updateBattleResult",
                        update_battle_result(Cur, snd, prm, log, oc))
         /\ \A prm \in AddressParams, log \in LogOutcome :
              Discarded("updateAdmin",
                        contract_update_admin(Cur, snd, prm, log))
         /\ \A prm \in SetPausedParams :
              Discarded("setPaused", contract_update_pause(Cur, snd, prm))
         /\ \A prm \in SetImplementorsParams :
              Discarded("setImplementors",
                        contract_set_implementors(Cur, snd, prm))
         /\ \A prm \in UpgradeParams :
              \A inv \in MigrationOutcomes(prm) :
                Discarded("upgrade", contract_upgrade(Cur, snd, prm, inv))
    /\ \A prm \in AddressParams :
         /\ Discarded("getPlayerData",
                      contract_state_get_player_data(Cur, prm))
         /\ Discarded("isAdded", contract_state_is_added(Cur, prm))
    /\ \A prm \in SupportsParams :
         Discarded("supports", contract_supports(Cur, prm))
    /\ Discarded("getPaused", contract_state_get_paused(Cur))
    /\ Discarded("view", contract_view(Cur))

\* C13: on every reachable durable state, a call of any entrypoint that
\* returns an error leaves admin, paused, player_data, implementors and
\* the module as they were and logs nothing.  When the logger rejects the
\* event, updateAdmin by the admin fails with LogFull or LogMalformed
\* after it has written the new admin, and updateBattleResult by the admin
\* for a player with a record fails with LogFull or LogMalformed after it
\* has incremented the counter (or traps in the increment); neither write
\* is committed.
C13_AllOrNothing ==
    /\ AfterView =>
         /\ EveryErrorDiscarded
         /\ \A log \in LogErrors, prm \in WellFormed(AddressParams) :
              LET r == contract_update_admin(Cur, admin, prm, log) IN
              /\ r.ret = FromLogError(log)
              /\ r.state.admin = prm.address
              /\ After("updateAdmin", r) = Cur
         /\ ~paused =>
              \A log \in LogErrors, oc \in BOOLEAN,
                 prm \in WellFormed(UpdateBattleResultParams) :
                 prm.player \in DOMAIN player_data =>
                    LET r == update_battle_result(Cur, admin, prm, log, oc)
                        trap == oc /\ IncrementCounter(
                                    player_data[prm.player], prm.result,
                                    TRUE).panic
                    IN
                    /\ r.ret = IF trap THEN "Trap" ELSE FromLogError(log)
                    /\ ~trap => r.state.player_data[prm.player]
                                    # player_data[prm.player]
                    /\ After("updateBattleResult", r) = Cur
    /\ result # "Ok" =>
         /\ admin = before.admin
         /\ paused = before.paused
         /\ module = before.module
         /\ logs = << >>

\* The admin's updateBattleResult for a player with a record was rejected
\* because the log was full: the record still has its counters at zero.
C13_Witness ==
    /\ op = "updateBattleResult"
    /\ result = "LogFull"
    /\ sender = admin
    /\ ~paused
    /\ \E p \in DOMAIN player_data :
         /\ DOMAIN player_data = {p}
         /\ player_data[p].wins = 0
         /\ player_data[p].losses = 0

\* --------------------------------------------------------------------
\* C14: contract_init makes the instantiator the admin, with paused
\* FALSE and no player and no implementors entry; in every reachable
\* state admin is an account, and a transaction leaves an admin other
\* than the one it found only if it is a successful updateAdmin sent by
\* that admin or a successful upgrade that ran a migration.
C14_AdminLifecycle ==
    /\ \A a \in Address :
         LET r == contract_init(a, "m1", "Ok") IN
         /\ r.ret = "Ok"
         /\ r.state = [admin |-> a, player_data |-> << >>,
                       paused |-> FALSE, implementors |-> << >>,
                       module |-> "m1"]
    /\ op = "init" =>
         /\ admin = sender
         /\ ~paused
         /\ player_data = << >>
         /\ implementors = << >>
    /\ admin \in Address
    /\ admin # before.admin =>
         \/ op = "updateAdmin" /\ result = "Ok" /\ sender = before.admin
         \/ op = "upgrade" /\ result = "Ok" /\ steps = UpgradeStages
    /\ AfterView =>
         \A snd \in Address :
            /\ \A prm \in SetPlayerDataParams :
                 After("setPlayerData",
                       contract_state_set_player_data(Cur, snd, prm)).admin
                    = admin
            /\ \A prm \in UpdateBattleResultParams, oc \in BOOLEAN :
                 After("updateBattleResult",
                       update_battle_result(Cur, snd, prm, "Ok", oc)).admin
                    = admin
            /\ \A prm \in SetPausedParams :
                 After("setPaused",
                       contract_update_pause(Cur, snd, prm)).admin = admin
            /\ \A prm \in SetImplementorsParams :
                 After("setImplementors",
                       contract_set_implementors(Cur, snd, prm)).admin
                    = admin
            /\ \A prm \in UpgradeParams :
                 (prm.ok /\ prm.migrate = None) =>
                    After("upgrade",
                          contract_upgrade(Cur, snd, prm, NoCall)).admin
                        = admin

\* The admin of an unpaused registry that holds both accounts as players
\* has handed it to the other account.
C14_Witness ==
    /\ op = "updateAdmin"
    /\ result = "Ok"
    /\ sender = before.admin
    /\ admin # before.admin
    /\ ~paused
    /\ DOMAIN player_data = Address
    /\ implementors = << >>

\* --------------------------------------------------------------------
\* C15: on every reachable durable state that is not paused,
\* setPlayerData(account, status) by the admin returns Ok and logs
\* nothing; an account without a record gets one with the status given,
\* wins = 0 and losses = 0; an account with a record keeps its wins and
\* losses and has the status given, whatever its status was; the records
\* of the other accounts, admin, paused, implementors and the module are
\* unchanged.
C15_SetPlayerData ==
    /\ (AfterView /\ ~paused) =>
         \A prm \in WellFormed(SetPlayerDataParams) :
            LET r == contract_state_set_player_data(Cur, admin, prm)
                post == After("setPlayerData", r)
                p == prm.player
            IN
            /\ r.ret = "Ok"
            /\ r.logs = << >>
            /\ DOMAIN post.player_data = DOMAIN player_data \cup {p}
            /\ p \notin DOMAIN player_data =>
                 post.player_data[p] =
                    [state |-> prm.state, wins |-> 0, losses |-> 0]
            /\ p \in DOMAIN player_data =>
                 /\ post.player_data[p].state = prm.state
                 /\ post.player_data[p].wins = player_data[p].wins
                 /\ post.player_data[p].losses = player_data[p].losses
            /\ \A q \in DOMAIN player_data \ {p} :
                 post.player_data[q] = player_data[q]
            /\ [post EXCEPT !.player_data = player_data] = Cur
    /\ (op = "setPlayerData" /\ result = "Ok") =>
         /\ sender = before.admin
         /\ ~before.paused
         /\ admin = before.admin
         /\ paused = before.paused
         /\ module = before.module
         /\ DOMAIN player_data # {}
         /\ logs = << >>

\* setPlayerData succeeded in a registry whose only player, the target
\* of the call, is suspended and has a win and a loss on record.
C15_Witness ==
    /\ op = "setPlayerData"
    /\ result = "Ok"
    /\ \E p \in Address :
         /\ DOMAIN player_data = {p}
         /\ player_data[p] = [state |-> "Suspended", wins |-> 1,
                              losses |-> 1]

\* --------------------------------------------------------------------
\* C16: on every reachable durable state, an updateBattleResult(account,
\* outcome) that returns Ok for an account with a record leaves the
\* matching counter of that record (wins for Win, losses for Loss) one
\* higher than it was, leaves the other counter and the status of the
\* record, the records of the other accounts, admin, paused, implementors
\* and the module as they were, and logs exactly one
\* NewBattleResultEvent with that account and that outcome.
C16_ExactIncrement ==
    \A prm \in WellFormed(UpdateBattleResultParams), oc \in BOOLEAN :
        prm.player \in DOMAIN player_data =>
            LET r == update_battle_result(Cur, admin, prm, "Ok", oc)
                post == After("updateBattleResult", r)
                p == prm.player
                old == player_data[p]
            IN
            r.ret = "Ok" =>
                /\ post.player_data[p] =
                     IF prm.result = "Win"
                     THEN [old EXCEPT !.wins = old.wins + 1]
                     ELSE [old EXCEPT !.losses = old.losses + 1]
                /\ DOMAIN post.player_data = DOMAIN player_data
                /\ \A q \in DOMAIN player_data \ {p} :
                     post.player_data[q] = player_data[q]
                /\ [post EXCEPT !.player_data = player_data] = Cur
                /\ r.logs = <<NewBattleResultEvent(p, prm.result)>>

\* --------------------------------------------------------------------
\* C17: on every reachable durable state, setPlayerData and
\* updateBattleResult check the pause, then the sender, then parse the
\* parameter: when paused they return ContractPaused to every sender,
\* the admin or not, whatever the parameter; when not paused they return
\* Unauthorized to a sender that is not the admin, also for a parameter
\* that does not parse; and ParseParams is returned only to the admin of
\* an unpaused registry.
C17_GuardOrder ==
    /\ AfterView =>
         \A snd \in Address :
            /\ \A prm \in SetPlayerDataParams :
                 contract_state_set_player_data(Cur, snd, prm).ret =
                    IF paused THEN "ContractPaused"
                    ELSE IF snd # admin THEN "Unauthorized"
                    ELSE IF ~prm.ok THEN "ParseParams"
                    ELSE "Ok"
            /\ \A prm \in UpdateBattleResultParams, log \in LogOutcome,
                  oc \in BOOLEAN :
                 LET r == update_battle_result(Cur, snd, prm, log, oc) IN
                 /\ paused => r.ret = "ContractPaused"
                 /\ (~paused /\ snd # admin) => r.ret = "Unauthorized"
                 /\ (~paused /\ snd = admin /\ ~prm.ok) =>
                      r.ret = "ParseParams"
                 /\ (~paused /\ snd = admin /\ prm.ok) =>
                      r.ret \notin {"ContractPaused", "Unauthorized",
                                    "ParseParams"}
    /\ op \in PauseGated =>
         /\ before.paused <=> (result = "ContractPaused")
         /\ (~before.paused /\ sender # before.admin)
                <=> (result = "Unauthorized")
         /\ result = "ParseParams" =>
                (~before.paused /\ sender = before.admin)

\* updateBattleResult sent to a paused registry by an account that is
\* not the admin was refused with ContractPaused.
C17_Witness ==
    /\ op = "updateBattleResult"
    /\ result = "ContractPaused"
    /\ before.paused
    /\ sender # before.admin
    /\ sender # admin

\* --------------------------------------------------------------------
\* What the guards of entry answer to sender snd on state st for a
\* parameter that parses.
Guard(st, entry, snd) ==
    IF entry \in PauseGated /\ st.paused THEN "ContractPaused"
    ELSE IF snd # st.admin THEN "Unauthorized"
    ELSE "Ok"

\* Every guarded call re-entered on state mid, by any sender with a
\* parameter that parses, is accepted or refused as the admin and paused
\* of mid say.
GuardsFollow(mid) ==
    \A snd \in Address :
        /\ \A prm \in WellFormed(SetPlayerDataParams) :
             Reenter(mid, "setPlayerData", snd, prm).ret =
                Guard(mid, "setPlayerData", snd)
        /\ \A prm \in WellFormed(UpdateBattleResultParams) :
             Reenter(mid, "updateBattleResult", snd, prm).ret =
                Guard(mid, "updateBattleResult", snd)
        /\ \A prm \in WellFormed(AddressParams) :
             Reenter(mid, "updateAdmin", snd, prm).ret =
                Guard(mid, "updateAdmin", snd)
        /\ \A prm \in WellFormed(SetPausedParams) :
             Reenter(mid, "setPaused", snd, prm).ret =
                Guard(mid, "setPaused", snd)

\* An upgrade by the admin to module m whose migration left the durable
\* state w leaves exactly w.
UpgradeKeeps(m, w) ==
    LET r == contract_upgrade(
                Cur, admin,
                [ok |-> TRUE, module |-> m, migrate |-> "migrate"],
                [ok |-> TRUE, state |-> w])
    IN  r.ret = "Ok" /\ After("upgrade", r) = w

\* C18: on every reachable durable state, during the migration call of an
\* upgrade by the admin, after a re-entered updateAdmin(N) or
\* setPaused(b) of the admin has changed admin or paused, every guarded
\* call re-entered next is accepted or refused according to the admin
\* and paused that call left, not according to the ones the transaction
\* started with; and whatever the re-entered calls left is what the
\* upgrade leaves: nothing of the State that contract_upgrade read before
\* the migration call is used after it.
C18_GuardsReadCurrentState ==
    /\ AfterView =>
         \A m \in {"m1", "m2"} :
            LET store == [Cur EXCEPT !.module = m] IN
            /\ GuardsFollow(store)
            /\ \A prm \in WellFormed(AddressParams) :
                 LET mid == AfterReenter(store, "updateAdmin", admin, prm)
                 IN
                 /\ mid = [store EXCEPT !.admin = prm.address]
                 /\ mid \in MigrationWrites(store)
                 /\ GuardsFollow(mid)
                 /\ UpgradeKeeps(m, mid)
                 /\ \A p2 \in WellFormed(SetPlayerDataParams) :
                      UpgradeKeeps(m, AfterReenter(mid, "setPlayerData",
                                                   prm.address, p2))
            /\ \A prm \in WellFormed(SetPausedParams) :
                 LET mid == AfterReenter(store, "setPaused", admin, prm)
                 IN
                 /\ mid = [store EXCEPT !.paused = prm.paused]
                 /\ GuardsFollow(mid)
                 /\ UpgradeKeeps(m, mid)
    /\ (op = "upgrade" /\ result = "Ok" /\ admin # before.admin) =>
         /\ steps = UpgradeStages
         /\ sender = before.admin
         /\ Guard(Cur, "setPaused", sender) = "Unauthorized"

\* An upgrade of a paused registry that holds a player ran a migration
\* that handed the registry to another account: the admin that sent the
\* upgrade is no longer accepted.
C18_Witness ==
    /\ op = "upgrade"
    /\ result = "Ok"
    /\ steps = UpgradeStages
    /\ admin # before.admin
    /\ contract_update_pause(Cur, sender, Malformed).ret = "Unauthorized"
    /\ paused
    /\ DOMAIN player_data # {}

\* --------------------------------------------------------------------
\* C19: in every step other than an upgrade that ran a migration, every
\* account that has a record keeps one; an account gets a record only in
\* a setPlayerData that returned Ok; and no record's wins or losses gets
\* lower.
C19_RecordsGrowOnly ==
    [][~MigrationRan =>
         /\ DOMAIN player_data \subseteq DOMAIN player_data'
         /\ DOMAIN player_data' # DOMAIN player_data =>
                (op' = "setPlayerData" /\ result' = "Ok")
         /\ \A p \in DOMAIN player_data :
              /\ player_data'[p].wins >= player_data[p].wins
              /\ player_data'[p].losses >= player_data[p].losses]_vars

\* --------------------------------------------------------------------
\* The wins and losses on record for account p in the map pdm, 0 for an
\* account without a record.
WinsOf(pdm, p) == IF p \in DOMAIN pdm THEN pdm[p].wins ELSE 0
LossesOf(pdm, p) == IF p \in DOMAIN pdm THEN pdm[p].losses ELSE 0

\* C20: the instance starts with no counter and no battle-result event,
\* and in every step other than an upgrade that ran a migration, for
\* every account P, wins(P) grows by the number of Win events the
\* transaction logged for P and losses(P) by the number of Loss events it
\* logged for P; so the Win events logged for P number wins(P) and the
\* Loss events losses(P) in every state reached without a migration.
C20_EventsMatchCounters ==
    /\ [](op = "init" =>
            /\ player_data = << >>
            /\ \A p \in Address, res \in BattleResult :
                 CountEvents(logs, p, res) = 0)
    /\ [][~MigrationRan =>
            \A p \in Address :
               /\ WinsOf(player_data', p) =
                    WinsOf(player_data, p) + CountEvents(logs', p, "Win")
               /\ LossesOf(player_data', p) =
                    LossesOf(player_data, p)
                        + CountEvents(logs', p, "Loss")]_vars

\* --------------------------------------------------------------------
\* C21: the counters never wrap: no updateBattleResult commits a state
\* in which a record's wins or losses is lower than it was before the
\* call; in particular an increment of a counter that is at the maximum
\* (MaxU here, 2^64 - 1 in the code) does not commit 0.
C21_CountersNeverWrap ==
    [][op' = "updateBattleResult" =>
         \A p \in DOMAIN player_data :
            /\ p \in DOMAIN player_data'
            /\ player_data'[p].wins >= player_data[p].wins
            /\ player_data'[p].losses >= player_data[p].losses]_vars

====
